---- MODULE Spec2Model ----
(***************************************************************************)
(* Model of the lock-contention microbenchmark:                            *)
(*   src/src/poisson_process.rs  duration_until_next_event                 *)
(*   src/src/lock_emulation.rs   toggle_lock, toggle_lock_parallel         *)
(*                                                                         *)
(* f64 values are fixed-point numbers with SCALE units per 1.0, plus the   *)
(* IEEE specials +inf, -inf and NaN.  Wall-clock time advances in ticks    *)
(* that may fall between any two steps of any thread.                      *)
(***************************************************************************)
EXTENDS Integers, Sequences, FiniteSets, TLC

\* ------------------------------------------------------------------ bounds
MaxThreads == 2      \* largest thread count passed to toggle_lock_parallel
MaxLimit == 1        \* largest duration_limit
LiveMaxLimit == 0    \* largest duration_limit of the runs checked for termination
GridN == 4           \* the uniform draw takes the values k/GridN, 0 <= k < GridN
MaxTasksDone == 1    \* cap on tasks_done (a thread can loop without the clock moving)

SCALE == 10000       \* fixed-point resolution: 1.0 is 10000

Threads == 1..MaxThreads

\* -------------------------------------------------------------- f64 values
F(v) == [k |-> "fin", v |-> v]
PosInf == [k |-> "inf", v |-> 0]
NegInf == [k |-> "ninf", v |-> 0]
NaN == [k |-> "nan", v |-> 0]

IsFinite(x) == x.k = "fin"

Abs(n) == IF n < 0 THEN -n ELSE n
Sgn(n) == IF n < 0 THEN -1 ELSE IF n > 0 THEN 1 ELSE 0

\* integer division rounding toward zero
TruncDiv(a, b) == Sgn(a) * Sgn(b) * (Abs(a) \div Abs(b))

\* sum over odd n of z^n / n, from the term p = z^n on; z2 = z^2
RECURSIVE AtanhSeries(_, _, _)
AtanhSeries(p, z2, n) ==
    IF p = 0 THEN 0
    ELSE TruncDiv(p, n) + AtanhSeries(TruncDiv(p * z2, SCALE), z2, n + 2)

\* f64::ln: ln(0) = -inf, ln(x < 0) = NaN, ln(+inf) = +inf;
\* for finite x > 0, ln x = 2 atanh((x - 1) / (x + 1))
FLn(x) ==
    CASE x.k = "nan" -> NaN
      [] x.k = "ninf" -> NaN
      [] x.k = "inf" -> PosInf
      [] x.k = "fin" /\ x.v < 0 -> NaN
      [] x.k = "fin" /\ x.v = 0 -> NegInf
      [] OTHER ->
           LET z == TruncDiv((x.v - SCALE) * SCALE, x.v + SCALE)
           IN  F(2 * AtanhSeries(z, TruncDiv(z * z, SCALE), 1))

\* unary minus
FNeg(x) ==
    CASE x.k = "inf" -> NegInf
      [] x.k = "ninf" -> PosInf
      [] x.k = "nan" -> NaN
      [] OTHER -> F(-x.v)

\* x / y for a finite divisor y
FDiv(x, y) ==
    CASE x.k = "nan" -> NaN
      [] x.k = "inf" -> IF y.v < 0 THEN NegInf ELSE PosInf
      [] x.k = "ninf" -> IF y.v < 0 THEN PosInf ELSE NegInf
      [] y.v = 0 -> IF x.v = 0 THEN NaN ELSE IF x.v < 0 THEN NegInf ELSE PosInf
      [] OTHER -> F(TruncDiv(x.v * SCALE, y.v))

\* x + y for a finite y
FAdd(x, y) == IF IsFinite(x) THEN F(x.v + y.v) ELSE x

\* 1. - r
OneMinus(r) == F(SCALE - r.v)

\* usize::MAX.  The program's value is 2^64 - 1; the model's integers end at
\* 2^31 - 1, and no modelled burst comes near either.
USIZE_MAX == 2147483647

\* `x as usize`: NaN is 0, a negative value is 0, +inf saturates, the rest
\* is truncated toward zero
AsUsize(x) ==
    CASE x.k = "nan" -> 0
      [] x.k = "ninf" -> 0
      [] x.k = "inf" -> USIZE_MAX
      [] x.v < 0 -> 0
      [] OTHER -> x.v \div SCALE

\* --------------------------------------------------- poisson_process.rs
\* the values rng.gen_range(0. ..1.) can take: the half-open range [0, 1)
GenRange01 == { F((k * SCALE) \div GridN) : k \in 0..(GridN - 1) }

\* let uniform_rv: f64 = 1. - rng.gen_range(0. ..1.);
UniformRv(r) == OneMinus(r)

\* the duration without the leading minus
IntervalOf_NoNeg(uniform_rv, lambda) == FDiv(FLn(uniform_rv), F(lambda))

\* -(uniform_rv.ln()) / lambda
IntervalOf(uniform_rv, lambda) == FDiv(FNeg(FLn(uniform_rv)), F(lambda))

\* one call of duration_until_next_event(lambda) whose uniform draw is r:
\* the draw, the argument of ln and the returned duration
duration_until_next_event(lambda, r) ==
    LET uniform_rv == UniformRv(r)
    IN  [lambda |-> lambda, u |-> uniform_rv, out |-> IntervalOf(uniform_rv, lambda)]

\* ------------------------------------------- f64 of poisson_process.rs:9-16
\* The values of rate and prob_of_one_event_within_next need more digits
\* than the fixed-point numbers above: they are decimal floating-point
\* numbers m * 10^e with a mantissa of eight digits, DLo <= |m| < DHi, or
\* m = 0.  Sums and quotients round to nearest, products truncate.  Eight
\* digits stand for the 53 bits of an f64: 1 - x rounds to 1 for x below
\* half the spacing of the numbers under 1, which is 5 * 10^-9 here and
\* 2^-54 in the program.
DLo == 10000000
DHi == 100000000
DSplit == 10000

Dec(m, e) == [m |-> m, e |-> e]
DZero == Dec(0, 0)
DOne == Dec(DLo, -7)

RECURSIVE Pow10(_)
Pow10(k) == IF k = 0 THEN 1 ELSE 10 * Pow10(k - 1)

\* the integer nearest to x / 10^k, halves away from zero; |x| < 10^9, k <= 9
RoundShift(x, k) == Sgn(x) * ((Abs(x) + Pow10(k) \div 2) \div Pow10(k))

\* the eight-digit number nearest to m * 10^e
RECURSIVE DNorm(_, _)
DNorm(m, e) ==
    IF m = 0 THEN DZero
    ELSE IF Abs(m) >= DHi THEN DNorm(RoundShift(m, 1), e + 1)
    ELSE IF Abs(m) < DLo THEN DNorm(m * 10, e - 1)
    ELSE Dec(m, e)

DNeg(x) == Dec(-x.m, x.e)

\* x + y with one guard digit
DAdd(x, y) ==
    IF x.m = 0 THEN y
    ELSE IF y.m = 0 THEN x
    ELSE LET hi == IF x.e >= y.e THEN x ELSE y
             lo == IF x.e >= y.e THEN y ELSE x
             k == hi.e - lo.e
         IN  IF k > 9 THEN hi
             ELSE DNorm(hi.m * 10 + RoundShift(lo.m * 10, k), hi.e - 1)

DSub(x, y) == DAdd(x, DNeg(y))

DLt(x, y) == DSub(x, y).m < 0
DLe(x, y) == DSub(x, y).m <= 0
DAbs(x) == Dec(Abs(x.m), x.e)

\* x * y: the sixteen-digit product of the mantissas, computed in halves of
\* four digits, cut to its leading eight digits
DMul(x, y) ==
    IF x.m = 0 \/ y.m = 0 THEN DZero
    ELSE LET a == Abs(x.m)
             b == Abs(y.m)
             a1 == a \div DSplit
             a0 == a % DSplit
             b1 == b \div DSplit
             b0 == b % DSplit
             mid == (a1 * b0 + a0 * b1) + (a0 * b0) \div DSplit
             top == a1 * b1 + mid \div DSplit
             s == Sgn(x.m) * Sgn(y.m)
         IN  IF top >= DLo
             THEN Dec(s * top, x.e + y.e + 8)
             ELSE Dec(s * (a1 * b1 * 10 + mid \div (DSplit \div 10)), x.e + y.e + 7)

\* long division: n more digits of r / d appended to q
RECURSIVE DivDigits(_, _, _, _)
DivDigits(q, r, d, n) ==
    IF n = 0 THEN q
    ELSE DivDigits(q * 10 + r \div d, (r % d) * 10, d, n - 1)

\* x / y for y # 0, to nine digits and then rounded
DDiv(x, y) ==
    IF x.m = 0 THEN DZero
    ELSE LET s == Sgn(x.m) * Sgn(y.m)
             a == Abs(x.m)
             b == Abs(y.m)
         IN  IF a >= b
             THEN DNorm(s * DivDigits(0, a, b, 9), x.e - y.e - 8)
             ELSE DNorm(s * DivDigits(0, a * 10, b, 9), x.e - y.e - 9)

\* the decimal number of the integer n
DInt(n) == DNorm(n, 0)

\* std::f64::consts::E
E == Dec(27182818, -7)

\* E^n for a natural n
RECURSIVE PowE(_)
PowE(n) ==
    IF n = 0 THEN DOne
    ELSE IF n % 2 = 1 THEN DMul(E, PowE(n - 1))
    ELSE LET h == PowE(n \div 2) IN DMul(h, h)

\* the series of e^f is summed to the term f^ExpTerms / ExpTerms!, below
\* the last digit for f < 1
ExpTerms == 12

\* the sum of the terms from `term` = f^(k-1)/(k-1)! on
RECURSIVE ExpSeries(_, _, _)
ExpSeries(f, term, k) ==
    IF k > ExpTerms \/ term.m = 0 THEN term
    ELSE DAdd(term, ExpSeries(f, DDiv(DMul(term, f), DInt(k)), k + 1))

\* the integer part of y, 0 <= y < 10^7
IntPart(y) == IF y.e >= 0 THEN y.m * Pow10(y.e)
              ELSE IF y.e < -7 THEN 0
              ELSE y.m \div Pow10(-y.e)

\* the fractional part of y, 0 <= y < 10^7
FracPart(y) == IF y.e >= 0 THEN DZero
               ELSE IF y.e < -7 THEN y
               ELSE DNorm(y.m % Pow10(-y.e), y.e)

\* e^y for y >= 0
ExpPos(y) == DMul(PowE(IntPart(y)), ExpSeries(FracPart(y), DOne, 1))

\* E.powf(y)
powf_E(y) == IF y.m >= 0 THEN ExpPos(y) ELSE DDiv(DOne, ExpPos(DNeg(y)))

\* line 10: events / time_duration
rate(events, time_duration) == DDiv(events, time_duration)

\* the survival function in place of the CDF
prob_of_one_event_within_next_NoComplement(duration_arg, lambda) ==
    powf_E(DMul(DNeg(lambda), duration_arg))

\* line 15: 1. - E.powf(-lambda * duration)
prob_of_one_event_within_next(duration_arg, lambda) ==
    DSub(DOne, powf_E(DMul(DNeg(lambda), duration_arg)))

\* the arguments the calls are checked with: the rates and the horizons of
\* the tests, two more rates, and one horizon far in the tail
Events == {1}
TimeDurations == {600, 1200, 2400}
MaxHorizon == 96000
Horizons == {DInt(0), DInt(60), DInt(600), DInt(2400), Dec(38628000, -4),
             DInt(MaxHorizon)}

\* ------------------------------------------------------------------ state
\* the rates a caller passes (fixed-point): -1.0 is an invalid rate, 1.0 is
\* the lambda_unlock of the test one_thread_never_lock.  0.0 is left out: it
\* makes `as usize` saturate, a burst of usize::MAX work units.
Lambdas == {-SCALE, SCALE}

NoSample == [lambda |-> 0, u |-> NaN, out |-> NaN]
NoResult == <<>>

VARIABLES
    api,             \* which entry point the caller invoked
    lambda_unlock,   \* arguments, never mutated
    lambda_lock,
    duration_limit,
    threads,
    locked,          \* Mutex<()>: the lock is taken
    poisoned,        \* Mutex<()>: the poison flag
    pc,              \* per thread: position in toggle_lock
    guard,           \* per thread: owns a MutexGuard
    elapsed,         \* per thread: start.elapsed(), the wall-clock time since line 22
    duration,        \* per thread: the start.elapsed() read by the last check
    action,          \* per thread: 0 = lock then work, 1 = work unlocked
    tasks_done,      \* per thread: work counter
    tasks,           \* per thread: iterations left of `for _ in 0..tasks`
    sample,          \* per thread: the phase's call of duration_until_next_event
    ret,             \* per thread: the returned (tasks_done, duration)
    lastPass,        \* per thread: duration at the last check that did not return
    waited,          \* per thread: clock ticks spent blocked in lock() since that check
    opc,             \* toggle_lock_parallel: position of the calling thread
    spawned,         \* toggle_lock_parallel: handles collected so far
    joined,          \* toggle_lock_parallel: handles consumed by join()
    results,         \* toggle_lock_parallel: the Vec being collected
    phaseDiff,       \* per thread: Holding arms entered minus Released arms entered
    draws,           \* per thread: calls of duration_until_next_event in the current arm
    executed,        \* per thread: iterations of the burst loops run so far
    finished,        \* the threads that returned or panicked, in that order
    ppc,             \* caller of the pure functions: "idle", then "rated"
    rate_lambda,     \* what rate(events, time_duration) returned
    calls            \* the last two calls of prob_of_one_event_within_next

params == <<api, lambda_unlock, lambda_lock, duration_limit, threads>>
mutex == <<locked, poisoned, guard>>
locals == <<duration, action, tasks_done, tasks, sample, ret, lastPass>>
orch == <<opc, spawned, joined, results>>
clock == <<elapsed, waited>>
ghost == <<phaseDiff, draws, executed, finished>>
sim == <<params, mutex, pc, locals, clock, orch, ghost>>
pure == <<ppc, rate_lambda, calls>>
vars == <<sim, pure>>

Terminated(t) == pc[t] \in {"returned", "panicked"}
Running(t) == pc[t] \in {"check", "draw", "add", "lock", "burst", "unwind"}

Init ==
    /\ api \in {"toggle_lock", "toggle_lock_parallel"}
    /\ lambda_unlock \in Lambdas
    /\ lambda_lock \in Lambdas
    /\ duration_limit \in 0..MaxLimit
    /\ threads \in IF api = "toggle_lock" THEN {1} ELSE 0..MaxThreads
    /\ locked = FALSE
    /\ poisoned \in BOOLEAN      \* the caller owns the lock and may pass a poisoned one
    /\ pc = [t \in Threads |->
                IF api = "toggle_lock" /\ t = 1 THEN "start" ELSE "unspawned"]
    /\ guard = [t \in Threads |-> FALSE]
    /\ elapsed = [t \in Threads |-> 0]
    /\ duration = [t \in Threads |-> 0]
    /\ action = [t \in Threads |-> 0]
    /\ tasks_done = [t \in Threads |-> 0]
    /\ tasks = [t \in Threads |-> 0]
    /\ sample = [t \in Threads |-> NoSample]
    /\ ret = [t \in Threads |-> NoResult]
    /\ lastPass = [t \in Threads |-> 0]
    /\ waited = [t \in Threads |-> 0]
    /\ opc = IF api = "toggle_lock" THEN "caller" ELSE "spawn"
    /\ spawned = 0
    /\ joined = 0
    /\ results = <<>>
    /\ phaseDiff = [t \in Threads |-> 0]
    /\ draws = [t \in Threads |-> 0]
    /\ executed = [t \in Threads |-> 0]
    /\ finished = <<>>
    /\ ppc = "idle"
    /\ rate_lambda = DZero
    /\ calls = <<>>

\* ------------------------------------------------------------- wall clock
\* a thread blocked in lock(): it called lock() and another thread has the lock
Blocked(t) == pc[t] = "lock" /\ locked

\* One tick of the wall clock: start.elapsed() grows by one in every running
\* thread.  The clock is followed for as long as some running thread is
\* within its budget.
Tick ==
    /\ \E t \in Threads : Running(t) /\ elapsed[t] <= duration_limit
    /\ elapsed' = [t \in Threads |-> IF Running(t) THEN elapsed[t] + 1 ELSE elapsed[t]]
    /\ waited' = [t \in Threads |-> IF Blocked(t) THEN waited[t] + 1 ELSE waited[t]]
    /\ UNCHANGED <<ghost, pure, params, mutex, pc, locals, orch>>

\* ------------------------------------------------------------ toggle_lock
\* lines 21-24: tasks_done = 0; start = Instant::now(); action = 0
ThreadStart(t) ==
    /\ pc[t] = "start"
    /\ tasks_done' = [tasks_done EXCEPT ![t] = 0]
    /\ elapsed' = [elapsed EXCEPT ![t] = 0]
    /\ action' = [action EXCEPT ![t] = 0]
    /\ pc' = [pc EXCEPT ![t] = "check"]
    /\ UNCHANGED <<ghost, pure, params, mutex, duration, tasks, sample, ret, lastPass,
                   waited, orch>>

\* the comparison turned around
BudgetExceeded_Inverted(d) == d < duration_limit

\* the comparison one tick late
BudgetExceeded_Late(d) == d > duration_limit + 1

\* line 27: duration > duration_limit
BudgetExceeded(d) == d > duration_limit

\* lines 26-29: read the clock; return when the budget is exceeded
BudgetCheck(t) ==
    /\ pc[t] = "check"
    /\ LET d == elapsed[t] IN
        /\ duration' = [duration EXCEPT ![t] = d]
        /\ IF BudgetExceeded(d)
           THEN /\ ret' = [ret EXCEPT ![t] = <<tasks_done[t], d>>]
                /\ pc' = [pc EXCEPT ![t] = "returned"]
                /\ finished' = Append(finished, t)
                /\ UNCHANGED <<lastPass, waited, phaseDiff, draws>>
           ELSE /\ pc' = [pc EXCEPT ![t] = "draw"]
                /\ lastPass' = [lastPass EXCEPT ![t] = d]
                /\ waited' = [waited EXCEPT ![t] = 0]
                /\ phaseDiff' = [phaseDiff EXCEPT ![t] =
                                    IF action[t] = 0 THEN phaseDiff[t] + 1
                                                     ELSE phaseDiff[t] - 1]
                /\ draws' = [draws EXCEPT ![t] = 0]
                /\ UNCHANGED <<ret, finished>>
    /\ UNCHANGED <<pure, params, mutex, elapsed, action, tasks_done, tasks, sample, orch,
                   executed>>

\* the rate a phase samples with: lambda_unlock at line 34, lambda_lock at line 44
PhaseLambda_Swapped(a) == IF a = 0 THEN lambda_lock ELSE lambda_unlock

\* line 34 draws with lambda_unlock, line 44 with lambda_lock
PhaseLambda(a) == IF a = 0 THEN lambda_unlock ELSE lambda_lock

\* the cast without the + 0.5
TaskCount_Trunc(interval) == AsUsize(interval)

\* (duration_until_next_event(lambda) + 0.5) as usize
TaskCount(interval) == AsUsize(FAdd(interval, F(SCALE \div 2)))

\* lines 34 and 44: call duration_until_next_event with the phase's rate
SampleTasks(t) ==
    /\ pc[t] = "draw"
    /\ \E r \in GenRange01 :
        LET s == duration_until_next_event(PhaseLambda(action[t]), r)
        IN  /\ tasks_done[t] + TaskCount(s.out) <= MaxTasksDone
            /\ sample' = [sample EXCEPT ![t] = s]
    /\ pc' = [pc EXCEPT ![t] = "add"]
    /\ draws' = [draws EXCEPT ![t] = draws[t] + 1]
    /\ UNCHANGED <<pure, params, mutex, elapsed, duration, action, tasks_done, tasks,
                   ret, lastPass, waited, orch, phaseDiff, executed, finished>>

\* an inclusive range, 0..=tasks
RangeLen_Inclusive(n) == n + 1

\* the number of iterations of `for _ in 0..tasks`
RangeLen(n) == n

\* lines 34-35 and 44-45: tasks = (sample + 0.5) as usize; tasks_done += tasks;
\* the Holding phase goes on to lock(), the Released phase to its burst
AddTasks(t) ==
    /\ pc[t] = "add"
    /\ LET n == TaskCount(sample[t].out)
       IN  /\ tasks' = [tasks EXCEPT ![t] = RangeLen(n)]
           /\ tasks_done' = [tasks_done EXCEPT ![t] = tasks_done[t] + n]
    /\ sample' = [sample EXCEPT ![t] = NoSample]
    /\ pc' = [pc EXCEPT ![t] = IF action[t] = 0 THEN "lock" ELSE "burst"]
    /\ UNCHANGED <<ghost, pure, params, mutex, elapsed, duration, action, ret, lastPass,
                   waited, orch>>

\* a lock that lets a second thread in
CanAcquire_NoWait == TRUE

\* Mutex::lock returns only once the lock is free
CanAcquire == ~locked

\* the poison recovered from (into_inner) in place of unwrap
AfterLock_Recover == "burst"

\* Result::unwrap on the LockResult: a poisoned lock panics
AfterLock == IF poisoned THEN "unwind" ELSE "burst"

\* a lock() that gives up once the budget has run out while waiting
LockAcquire_Recheck(t) ==
    /\ pc[t] = "lock"
    /\ CanAcquire
    /\ IF elapsed[t] > duration_limit
       THEN /\ pc' = [pc EXCEPT ![t] = "check"]
            /\ tasks' = [tasks EXCEPT ![t] = 0]
            /\ UNCHANGED <<locked, guard>>
       ELSE /\ locked' = TRUE
            /\ guard' = [guard EXCEPT ![t] = TRUE]
            /\ pc' = [pc EXCEPT ![t] = AfterLock]
            /\ UNCHANGED tasks
    /\ UNCHANGED <<ghost, pure, params, poisoned, duration, action, tasks_done, sample,
                   ret, lastPass, clock, orch>>

\* line 36: let _guard = lock.lock().unwrap();
LockAcquire(t) ==
    /\ pc[t] = "lock"
    /\ CanAcquire
    /\ locked' = TRUE
    /\ guard' = [guard EXCEPT ![t] = TRUE]
    /\ pc' = [pc EXCEPT ![t] = AfterLock]
    /\ UNCHANGED <<ghost, pure, params, poisoned, locals, clock, orch>>

\* the panic of unwrap drops the PoisonError and the guard inside it
UnwindPanic(t) ==
    /\ pc[t] = "unwind"
    /\ guard' = [guard EXCEPT ![t] = FALSE]
    /\ locked' = FALSE
    /\ poisoned' = TRUE
    /\ pc' = [pc EXCEPT ![t] = "panicked"]
    /\ finished' = Append(finished, t)
    /\ UNCHANGED <<pure, params, locals, clock, orch, phaseDiff, draws, executed>>

\* a burst that runs only under the lock or while the lock is free
WorkUnit_NeedsLock(t) ==
    /\ pc[t] = "burst"
    /\ tasks[t] > 0
    /\ guard[t] \/ ~locked
    /\ tasks' = [tasks EXCEPT ![t] = tasks[t] - 1]
    /\ executed' = [executed EXCEPT ![t] = executed[t] + 1]
    /\ UNCHANGED <<pure, params, mutex, pc, elapsed, duration, action, tasks_done,
                   sample, ret, lastPass, waited, orch, phaseDiff, draws,
                   finished>>

\* lines 37-39 and 46-48: one iteration of the burst
WorkUnit(t) ==
    /\ pc[t] = "burst"
    /\ tasks[t] > 0
    /\ tasks' = [tasks EXCEPT ![t] = tasks[t] - 1]
    /\ executed' = [executed EXCEPT ![t] = executed[t] + 1]
    /\ UNCHANGED <<pure, params, mutex, pc, elapsed, duration, action, tasks_done,
                   sample, ret, lastPass, waited, orch, phaseDiff, draws,
                   finished>>

\* a guard that outlives its match arm
DropGuard_Leak(t) == UNCHANGED <<guard, locked>>

\* a guard that is forgotten: the thread lets go of it, the lock stays taken
DropGuard_Forget(t) ==
    /\ guard' = [guard EXCEPT ![t] = FALSE]
    /\ UNCHANGED locked

\* the end of a match arm: _guard, if the arm has one, goes out of scope
DropGuard(t) ==
    /\ guard' = [guard EXCEPT ![t] = FALSE]
    /\ locked' = IF guard[t] THEN FALSE ELSE locked

\* an arm that counts action up
ArmAction_Count(a) == a + 1

\* line 40: action = 1; line 49: action = 0
ArmAction(a) == IF a = 0 THEN 1 ELSE 0

\* the budget checked once per full iteration, before the Holding arm only
AfterPhase_CheckPerCycle(a) == IF a = 0 THEN "draw" ELSE "check"

\* line 25: after either arm the loop goes back to the check of line 26
AfterPhase(a) == "check"

\* lines 40-41 and 49-50: toggle action; the arm ends
EndPhase(t) ==
    /\ pc[t] = "burst"
    /\ tasks[t] = 0
    /\ action' = [action EXCEPT ![t] = ArmAction(action[t])]
    /\ DropGuard(t)
    /\ pc' = [pc EXCEPT ![t] = AfterPhase(action[t])]
    /\ UNCHANGED <<ghost, pure, params, poisoned, elapsed, duration, tasks_done, tasks, sample,
                   ret, lastPass, waited, orch>>

ThreadStep(t) ==
    \/ ThreadStart(t)
    \/ BudgetCheck(t)
    \/ SampleTasks(t)
    \/ AddTasks(t)
    \/ LockAcquire(t)
    \/ UnwindPanic(t)
    \/ WorkUnit(t)
    \/ EndPhase(t)

\* --------------------------------------------------- toggle_lock_parallel
\* line 65: s.spawn(|| toggle_lock(...)), once per element of 0..threads
Spawn ==
    /\ opc = "spawn"
    /\ spawned < threads
    /\ spawned' = spawned + 1
    /\ pc' = [pc EXCEPT ![spawned + 1] = "start"]
    /\ UNCHANGED <<ghost, pure, params, mutex, locals, clock, opc, joined, results>>

\* line 66: the handles are collected
CollectHandles ==
    /\ opc = "spawn"
    /\ spawned = threads
    /\ opc' = "join"
    /\ UNCHANGED <<ghost, pure, params, mutex, pc, locals, clock, spawned, joined, results>>

\* a join that does not wait
JoinReady_NoWait(i) == TRUE

\* line 69: h.join() returns once the thread has finished
JoinReady(i) == Terminated(i)

\* results gathered newest first
Collect_Front(rs, r) == <<r>> \o rs

\* lines 68-70: map(..).collect() keeps the order of the handles
Collect(rs, r) == Append(rs, r)

\* line 69: h.join().unwrap() of a thread that returned
JoinOk ==
    /\ opc = "join"
    /\ joined < threads
    /\ JoinReady(joined + 1)
    /\ pc[joined + 1] # "panicked"
    /\ results' = Collect(results, ret[joined + 1])
    /\ joined' = joined + 1
    /\ UNCHANGED <<ghost, pure, params, mutex, pc, locals, clock, opc, spawned>>

\* the Err of a panicked thread filtered out in place of unwrap
UnwrapJoinErr_Skip ==
    /\ joined' = joined + 1
    /\ UNCHANGED <<opc, results>>

\* unwrap of the Err that join gives for a panicked thread: the closure unwinds
UnwrapJoinErr ==
    /\ opc' = "unwinding"
    /\ UNCHANGED <<joined, results>>

\* line 69: h.join().unwrap() of a thread that panicked
JoinErr ==
    /\ opc = "join"
    /\ joined < threads
    /\ JoinReady(joined + 1)
    /\ pc[joined + 1] = "panicked"
    /\ UnwrapJoinErr
    /\ UNCHANGED <<ghost, pure, params, mutex, pc, locals, clock, spawned>>

\* thread::scope returns its closure's value or resumes its panic only after
\* every spawned thread has finished
ScopeDone == \A t \in 1..spawned : Terminated(t)

\* lines 70-71: the Vec is complete and scope returns it
ScopeReturn ==
    /\ opc = "join"
    /\ joined = threads
    /\ ScopeDone
    /\ opc' = "returned"
    /\ UNCHANGED <<ghost, pure, params, mutex, pc, locals, clock, spawned, joined, results>>

\* line 63: scope resumes the closure's panic
ScopeResumeUnwind ==
    /\ opc = "unwinding"
    /\ ScopeDone
    /\ opc' = "panicked"
    /\ results' = <<>>
    /\ UNCHANGED <<ghost, pure, params, mutex, pc, locals, clock, spawned, joined>>

Orchestrate ==
    \/ Spawn
    \/ CollectHandles
    \/ JoinOk
    \/ JoinErr
    \/ ScopeReturn
    \/ ScopeResumeUnwind

\* ---------------------------------------------------------- specification
Next ==
    \/ Tick
    \/ \E t \in Threads : ThreadStep(t)
    \/ Orchestrate

Spec == Init /\ [][Next]_vars

\* the calls checked for termination: valid rates, a short budget
LiveInit ==
    /\ Init
    /\ duration_limit <= LiveMaxLimit
    /\ lambda_unlock > 0
    /\ lambda_lock > 0

\* The scheduling the claims about termination assume: the clock advances,
\* and a thread that can step eventually does.  Nothing is assumed about
\* which waiter the lock picks.
LiveSpec ==
    /\ LiveInit
    /\ [][Next]_vars
    /\ WF_vars(Tick)
    /\ \A t \in Threads : WF_vars(ThreadStep(t))
    /\ WF_vars(Orchestrate)

\* ------------------------------------------------- the pure functions
\* a caller of poisson_process.rs, as its tests are: one call of rate, then
\* calls of prob_of_one_event_within_next with the rate it returned
CallRate ==
    /\ ppc = "idle"
    /\ \E ev \in Events, td \in TimeDurations :
        rate_lambda' = rate(DInt(ev), DInt(td))
    /\ ppc' = "rated"
    /\ UNCHANGED <<sim, calls>>

\* the last two elements of a sequence
LastTwo(s) == IF Len(s) > 2 THEN SubSeq(s, Len(s) - 1, Len(s)) ELSE s

CallProb ==
    /\ ppc = "rated"
    /\ \E d \in Horizons :
        calls' = LastTwo(Append(calls,
                    [duration |-> d,
                     prob |-> prob_of_one_event_within_next(d, rate_lambda)]))
    /\ UNCHANGED <<sim, ppc, rate_lambda>>

ProbNext ==
    \/ CallRate
    \/ CallProb

\* no simulation runs beside the calls
ProbInit ==
    /\ Init
    /\ api = "toggle_lock"
    /\ lambda_unlock = SCALE
    /\ lambda_lock = SCALE
    /\ duration_limit = 0
    /\ ~poisoned

ProbSpec == ProbInit /\ [][ProbNext]_vars

TypeOK ==
    \A t \in Threads : tasks_done[t] \in 0..MaxTasksDone /\ tasks[t] \in Nat

\* ----------------------------------------------------------------- claims
Holders == { t \in Threads : guard[t] }
Spawned == 1..threads
Returned(t) == pc[t] = "returned"
InHoldingBurst(t) == pc[t] = "burst" /\ action[t] = 0
InReleasedPhase(t) == action[t] = 1 /\ pc[t] \in {"draw", "add", "burst"}

\* C1: at most one thread holds the shared lock, a thread in the burst of its
\* Holding phase is that holder, and a thread that called lock() while another
\* thread holds the lock stays where it is, with its counters untouched, until
\* the holder has released.
C1_MutualExclusion ==
    /\ [](/\ Cardinality(Holders) <= 1
          /\ \A t \in Threads : InHoldingBurst(t) => guard[t]
          /\ Cardinality({ t \in Threads : InHoldingBurst(t) }) <= 1)
    /\ [][\A t \in Threads :
            (pc[t] = "lock" /\ \E o \in Threads \ {t} : guard[o])
                => /\ pc'[t] = "lock"
                   /\ ~guard'[t]
                   /\ tasks'[t] = tasks[t]
                   /\ tasks_done'[t] = tasks_done[t]
                   /\ action'[t] = action[t]]_vars

\* two threads contend: one is in its Holding burst, the other has been
\* blocked in lock() for at least one tick
C1_Witness ==
    \E t \in Threads, o \in Threads :
        /\ t # o
        /\ InHoldingBurst(t) /\ guard[t] /\ tasks[t] > 0
        /\ Blocked(o) /\ waited[o] > 0

\* the call is over: toggle_lock returned, or toggle_lock_parallel returned
\* its Vec or propagated a panic
CallReturned == IF api = "toggle_lock" THEN Returned(1) ELSE opc = "returned"
CallPanicked == IF api = "toggle_lock" THEN pc[1] = "panicked" ELSE opc = "panicked"

\* C2: under LiveSpec (the clock advances, a thread that can step does, and
\* the lock may pick any waiter) every call ends: no thread waits for the lock
\* forever; with a lock that is not poisoned the call ends by returning, for
\* toggle_lock and for toggle_lock_parallel with any thread count.
C2_Termination ==
    /\ <>(CallReturned \/ CallPanicked)
    /\ ~poisoned => <>CallReturned

\* toggle_lock_parallel has returned after two threads that both worked and
\* one of which had to wait for the lock in its last phase
C2_Witness ==
    /\ opc = "returned"
    /\ threads >= 2
    /\ \A t \in Spawned : tasks_done[t] > 0
    /\ \E t \in Spawned : waited[t] > 0

\* C3: when toggle_lock_parallel has returned, its Vec has exactly `threads`
\* elements, each the pair a thread returned, and every spawned thread has
\* returned: none is running or blocked on the lock.
C3_ExactlyTResults ==
    opc = "returned" =>
        /\ Len(results) = threads
        /\ spawned = threads
        /\ \A i \in 1..Len(results) : results[i] # NoResult
        /\ \A t \in Threads : (t \in Spawned) <=> Returned(t)

\* returned with two results
C3_Witness ==
    /\ opc = "returned"
    /\ threads = 2
    /\ Len(results) = 2

\* C4: a thread that has returned returned the counter and the elapsed time
\* its last check read, that time exceeds duration_limit (so is >= it), and the
\* counter is >= 0; a thread that has not returned has no result.
C4_ReturnedElapsed ==
    \A t \in Threads :
        IF Returned(t)
        THEN /\ ret[t] = <<tasks_done[t], duration[t]>>
             /\ BudgetExceeded(duration[t])
             /\ duration[t] >= duration_limit
             /\ tasks_done[t] >= 0
        ELSE ret[t] = NoResult

\* a thread returned with work done and an elapsed time past the budget
C4_Witness ==
    \E t \in Threads :
        /\ Returned(t)
        /\ ret[t][1] > 0
        /\ ret[t][2] > duration_limit

\* C5: a thread at a budget check, in its Released phase, or returned does
\* not hold the lock, and the lock is taken exactly while some thread holds a
\* guard; a thread takes the lock only in lock() of a Holding phase, and gives
\* it up only at the end of that phase's burst, all work units done (or, when
\* the lock was poisoned, in the panic of unwrap).
C5_LockScope ==
    /\ [](/\ \A t \in Threads :
                (pc[t] \in {"unspawned", "start", "check", "lock", "returned", "panicked"}
                    \/ InReleasedPhase(t)
                    \/ action[t] = 1)
                  => ~guard[t]
          /\ locked <=> Holders # {})
    /\ [][\A t \in Threads :
            /\ (~guard[t] /\ guard'[t]) => (pc[t] = "lock" /\ action[t] = 0)
            /\ (guard[t] /\ ~guard'[t]) =>
                  \/ pc[t] = "burst" /\ tasks[t] = 0 /\ pc'[t] = "check" /\ action'[t] = 1
                  \/ pc[t] = "unwind"]_vars

\* a Holding phase of zero work units is over: the thread is at the check
\* before its Released phase and the lock is free again
C5_Witness ==
    \E t \in Threads :
        /\ pc[t] = "check"
        /\ action[t] = 1
        /\ tasks_done[t] = 0
        /\ ~guard[t]
        /\ ~locked

\* the returned overshoot of a thread
Overshoot(t) == ret[t][2] - duration_limit

\* the time of the last phase a returned thread started: from the last check
\* it passed to the check that returned
LastPhaseTime(t) == ret[t][2] - lastPass[t]

\* C6 as claimed: the overshoot is at most the execution time of the last
\* burst.  The burst is given all the time of the last phase in which the
\* thread was not blocked in lock().
C6_OvershootOneBurst ==
    \A t \in Threads : Returned(t) => Overshoot(t) <= LastPhaseTime(t) - waited[t]

\* C6 amended: the overshoot is at most the time of the last phase the thread
\* started, which is the time it was blocked in lock() plus its burst.
C6_OvershootOnePhase ==
    \A t \in Threads : Returned(t) => Overshoot(t) <= LastPhaseTime(t)

\* a thread returned whose overshoot is the whole of its last phase, part of
\* it spent blocked in lock()
C6_Witness ==
    \E t \in Threads :
        /\ Returned(t)
        /\ waited[t] > 0
        /\ Overshoot(t) = LastPhaseTime(t)

\* C7: when a spawned thread has panicked, toggle_lock_parallel never returns
\* a Vec; it panics, and only once every spawned thread has finished.
C7_FailurePropagates ==
    /\ (\E t \in Threads : pc[t] = "panicked") => opc # "returned"
    /\ opc = "panicked" =>
          /\ \E t \in Spawned : pc[t] = "panicked"
          /\ \A t \in Spawned : Terminated(t)
          /\ results = <<>>

\* toggle_lock_parallel panicked with one thread returned and one panicked
C7_Witness ==
    /\ opc = "panicked"
    /\ \E t \in Spawned : Returned(t)
    /\ \E t \in Spawned : pc[t] = "panicked"

\* C8: a thread whose lock() finds the lock poisoned panics: it leaves lock()
\* only into the panic, the panic runs no work unit and does not toggle the
\* phase, and a panicked thread stays panicked, without a result.
C8_PoisonFatal ==
    /\ [](\A t \in Threads :
            /\ (poisoned /\ guard[t]) => pc[t] = "unwind"
            /\ pc[t] \in {"unwind", "panicked"} =>
                  /\ poisoned
                  /\ action[t] = 0
                  /\ ret[t] = NoResult)
    /\ [][\A t \in Threads :
            /\ (pc[t] = "lock" /\ poisoned /\ pc'[t] # "lock") => pc'[t] = "unwind"
            /\ pc[t] = "unwind" =>
                  /\ pc'[t] \in {"unwind", "panicked"}
                  /\ tasks'[t] = tasks[t]
            /\ pc[t] = "panicked" =>
                  /\ pc'[t] = "panicked"
                  /\ tasks'[t] = tasks[t]
                  /\ tasks_done'[t] = tasks_done[t]]_vars

\* a thread panicked on the poisoned lock with the work units it drew undone
C8_Witness ==
    \E t \in Threads :
        /\ pc[t] = "panicked"
        /\ poisoned
        /\ tasks[t] > 0

InvalidRate(lambda) == lambda <= 0

\* C9 as claimed: with a rate <= 0 no thread gets as far as sampling an
\* interval, calling lock() or running a burst, and no sampled interval is
\* negative, infinite or NaN.
C9_InvalidRatesRejected ==
    /\ (InvalidRate(lambda_unlock) \/ InvalidRate(lambda_lock)) =>
          \A t \in Threads : pc[t] \notin {"add", "lock", "burst", "unwind"} /\ ~guard[t]
    /\ \A t \in Threads :
          pc[t] = "add" => IsFinite(sample[t].out) /\ sample[t].out.v >= 0

\* C10: a sample taken with lambda > 0 has its u in (0, 1], so ln is never
\* taken of zero, and its duration is finite and >= 0; u = 1 gives exactly 0.
C10_SampleNonNegative ==
    \A t \in Threads :
        (pc[t] = "add" /\ sample[t].lambda > 0) =>
            /\ IsFinite(sample[t].u)
            /\ sample[t].u.v > 0
            /\ sample[t].u.v <= SCALE
            /\ IsFinite(sample[t].out)
            /\ sample[t].out.v >= 0
            /\ (sample[t].u.v = SCALE => sample[t].out.v = 0)

\* a sample with u < 1 and a positive duration
C10_Witness ==
    \E t \in Threads :
        /\ pc[t] = "add"
        /\ sample[t].lambda > 0
        /\ sample[t].u.v < SCALE
        /\ sample[t].out.v > 0

\* a thread inside an arm of the match of line 31
InArm(t) == pc[t] \in {"draw", "add", "lock", "burst"}

\* C12: each thread runs Holding, Released, Holding, ... starting with
\* Holding: action is only ever 0 or 1, the arms entered so far number as
\* many Holding as Released or one Holding more, a thread inside an arm is
\* in Holding exactly when that difference is 1, and a thread between arms
\* has the next arm's action.
C12_PhaseAlternation ==
    \A t \in Threads :
        /\ action[t] \in {0, 1}
        /\ phaseDiff[t] \in {0, 1}
        /\ InArm(t) => phaseDiff[t] = 1 - action[t]
        /\ pc[t] = "check" => phaseDiff[t] = action[t]
        /\ pc[t] \in {"unspawned", "start"} => action[t] = 0 /\ phaseDiff[t] = 0

\* a thread entering a Holding arm after it has run a work unit in an
\* earlier arm: at least its third arm
C12_Witness ==
    \E t \in Threads :
        pc[t] = "draw" /\ action[t] = 0 /\ executed[t] = 1 /\ phaseDiff[t] = 1

\* C13 as stated: in a Holding phase the draw and the increment of the work
\* counter happen while the thread holds the lock, so a Holding thread that
\* has drawn and is about to increment holds the guard.
C13_DrawWhileHolding ==
    \A t \in Threads : (pc[t] = "add" /\ action[t] = 0) => guard[t]

\* the rate the arm of action a passes to duration_until_next_event
ArmRate(a) == IF a = 0 THEN lambda_unlock ELSE lambda_lock

\* C13 amended: in a Holding phase the thread draws with lambda_unlock and
\* increments the counter, both without the lock, then acquires the lock,
\* then runs the burst holding it; in a Released phase it draws with
\* lambda_lock, increments and runs the burst without the lock.  The steps
\* of an arm follow in that order and the generator is called once per arm.
C13_StepOrder ==
    /\ [](\A t \in Threads :
            /\ pc[t] \in {"draw", "add", "lock"} => ~guard[t]
            /\ pc[t] = "burst" => (guard[t] <=> action[t] = 0)
            /\ pc[t] = "add" => sample[t].lambda = ArmRate(action[t])
            /\ pc[t] = "draw" => draws[t] = 0
            /\ pc[t] \in {"add", "lock", "burst"} => draws[t] = 1)
    /\ [][\A t \in Threads :
            /\ pc[t] = "draw" => pc'[t] \in {"draw", "add"}
            /\ pc[t] = "add" =>
                 pc'[t] \in {"add", IF action[t] = 0 THEN "lock" ELSE "burst"}
            /\ pc[t] = "lock" => pc'[t] \in {"lock", "burst", "unwind"}
            /\ draws'[t] # draws[t] =>
                 \/ pc[t] = "draw" /\ draws'[t] = draws[t] + 1
                 \/ pc[t] = "check" /\ draws'[t] = 0
            /\ tasks_done'[t] # tasks_done[t] => pc[t] = "add"
            /\ executed'[t] # executed[t] => pc[t] = "burst"]_vars

\* a Holding thread that has drawn one task without the lock, while another
\* thread holds it
C13_Witness ==
    \E t, u \in Threads :
        /\ pc[t] = "add" /\ action[t] = 0 /\ ~guard[t]
        /\ TaskCount(sample[t].out) = 1
        /\ guard[u]

\* C14: each work counter starts at 0, never decreases and changes only in
\* a step of its own thread, which leaves the other threads' counters and
\* phases alone; the work_units a thread returns are the work units it ran.
C14_WorkCounter ==
    /\ [](\A t \in Threads :
            /\ tasks_done[t] >= 0
            /\ pc[t] \in {"unspawned", "start"} => tasks_done[t] = 0
            /\ pc[t] = "check" => tasks_done[t] = executed[t]
            /\ Returned(t) => ret[t][1] = executed[t] /\ ret[t][1] = tasks_done[t])
    /\ [][\A t \in Threads :
            /\ tasks_done'[t] >= tasks_done[t]
            /\ tasks_done'[t] # tasks_done[t] => ThreadStep(t)
            /\ ThreadStep(t) =>
                 \A u \in Threads \ {t} :
                    tasks_done'[u] = tasks_done[u] /\ action'[u] = action[u]]_vars

\* both threads of a parallel call have returned, one with a work unit
\* counted and run, the other with none
C14_Witness ==
    /\ threads = 2
    /\ \A t \in Spawned : Returned(t)
    /\ \E t, u \in Spawned :
        /\ ret[t][1] = 1 /\ executed[t] = 1
        /\ ret[u][1] = 0 /\ executed[u] = 0

\* C15: the budget is checked before every phase and the check is the only
\* normal return: a thread returns only from the check, with the budget
\* exceeded, no guard and no work unit left; it enters an arm only from a
\* check that found the budget not exceeded; it leaves a burst only when
\* all drawn units have run.
C15_ExitAtPhaseBoundary ==
    /\ [](\A t \in Threads : Returned(t) => ~guard[t] /\ tasks[t] = 0)
    /\ [][\A t \in Threads :
            /\ (pc'[t] = "returned" /\ pc[t] # "returned") =>
                 /\ pc[t] = "check"
                 /\ elapsed[t] > duration_limit
                 /\ ~guard[t]
                 /\ tasks[t] = 0
            /\ (pc'[t] = "draw" /\ pc[t] # "draw") =>
                 pc[t] = "check" /\ elapsed[t] <= duration_limit
            /\ (pc[t] = "burst" /\ pc'[t] # "burst") =>
                 tasks[t] = 0 /\ pc'[t] = "check"]_vars

\* a thread that returned after a Holding phase, the Released phase not run
C15_Witness ==
    \E t \in Threads :
        Returned(t) /\ action[t] = 1 /\ phaseDiff[t] = 1 /\ ret[t][1] = 1

\* n = floor(x + 0.5) for a finite fixed-point x
RoundsHalfUpTo(x, n) ==
    /\ n \in Nat
    /\ n * SCALE <= x.v + SCALE \div 2
    /\ x.v + SCALE \div 2 < (n + 1) * SCALE

\* C16: the task count of a phase whose sampled interval x is non-negative
\* is floor(x + 0.5), which is 0 for x < 0.5, and it is what the counter
\* grows by.  A phase of zero tasks is a normal path: the Holding arm still
\* goes to lock(), a burst with no unit left can always end, and ending it
\* releases the guard, toggles action and leaves the counter alone.
C16_RoundHalfUp ==
    /\ [](\A t \in Threads :
            (pc[t] = "burst" /\ tasks[t] = 0) => ENABLED EndPhase(t))
    /\ [][\A t \in Threads :
            /\ (pc[t] = "add" /\ pc'[t] # "add" /\ IsFinite(sample[t].out)
                    /\ sample[t].out.v >= 0) =>
                 /\ RoundsHalfUpTo(sample[t].out, tasks'[t])
                 /\ 2 * sample[t].out.v < SCALE => tasks'[t] = 0
                 /\ tasks_done'[t] = tasks_done[t] + tasks'[t]
                 /\ pc'[t] = IF action[t] = 0 THEN "lock" ELSE "burst"
            /\ (pc[t] = "burst" /\ pc'[t] # "burst") =>
                 /\ pc'[t] = "check"
                 /\ action'[t] = 1 - action[t]
                 /\ ~guard'[t]
                 /\ tasks_done'[t] = tasks_done[t]]_vars

\* a Holding phase of zero tasks holds the lock with nothing to run, drawn
\* by a thread that ran a work unit in its first Holding phase
C16_Witness ==
    \E t \in Threads :
        /\ InHoldingBurst(t) /\ guard[t]
        /\ tasks[t] = 0 /\ tasks_done[t] = 1 /\ executed[t] = 1
        /\ waited[t] = 0 /\ lastPass[t] = 1

\* C17: lock() is the only place a thread waits.  A running thread can
\* step exactly when it is not in lock() with the lock taken, and the lock
\* it waits for is held by another thread; a thread at the check, adding,
\* in either burst or unwinding can step whatever the lock's state, and so
\* can a thread drawing while the lock is taken.
C17_SingleSuspensionPoint ==
    \A t \in Threads :
        /\ pc[t] = "check" => ENABLED BudgetCheck(t)
        /\ (pc[t] = "draw" /\ locked) => ENABLED SampleTasks(t)
        /\ pc[t] = "add" => ENABLED AddTasks(t)
        /\ pc[t] = "burst" =>
             IF tasks[t] > 0 THEN ENABLED WorkUnit(t) ELSE ENABLED EndPhase(t)
        /\ pc[t] = "unwind" => ENABLED UnwindPanic(t)
        /\ pc[t] = "lock" => (ENABLED LockAcquire(t) <=> ~locked)
        /\ Blocked(t) =>
             \E u \in Threads \ {t} : guard[u] /\ pc[u] \in {"burst", "unwind"}

\* a thread in its Released burst with a unit to run while the other thread
\* holds the lock
C17_Witness ==
    \E t, u \in Threads :
        /\ pc[t] = "burst" /\ action[t] = 1 /\ tasks[t] > 0
        /\ guard[u] /\ pc[u] = "burst"

\* the budget of thread t has run out
Expired(t) == elapsed[t] > duration_limit

\* C18: the clock of a thread runs while it waits in lock(), and nothing
\* reads it between lock() and the next check: a thread whose budget ran
\* out in lock() can take the lock once it is free, leaves lock() only into
\* the burst (or the poison panic) with its task count and its last read
\* duration untouched, runs the burst to its last unit, and returns a time
\* that includes the wait.
C18_NoRecheckAfterWait ==
    /\ [](\A t \in Threads :
            /\ (pc[t] = "lock" /\ Expired(t) /\ ~locked) => ENABLED LockAcquire(t)
            /\ (InHoldingBurst(t) /\ Expired(t) /\ tasks[t] > 0) =>
                 guard[t] /\ ENABLED WorkUnit(t)
            /\ Returned(t) => ret[t][2] >= lastPass[t] + waited[t])
    /\ [][\A t \in Threads :
            /\ (Blocked(t) /\ Tick) => elapsed'[t] = elapsed[t] + 1
            /\ (pc[t] = "lock" /\ pc'[t] # "lock") =>
                 /\ pc'[t] \in {"burst", "unwind"}
                 /\ guard'[t]
                 /\ tasks'[t] = tasks[t]
                 /\ duration'[t] = duration[t]
            /\ (InHoldingBurst(t) /\ Expired(t) /\ pc'[t] # "burst") =>
                 tasks[t] = 0 /\ pc'[t] = "check"]_vars

\* a thread whose budget ran out while it waited holds the lock with a unit
\* still to run, and the other thread waits for it
C18_Witness ==
    \E t, u \in Threads :
        /\ InHoldingBurst(t) /\ guard[t] /\ tasks[t] > 0
        /\ waited[t] > 0 /\ Expired(t) /\ lastPass[t] + waited[t] > duration_limit
        /\ Blocked(u)

\* C19: the Vec of toggle_lock_parallel is in spawn order: its i-th element
\* is what the i-th spawned thread returned, in whatever order the threads
\* finished.
C19_SpawnOrder ==
    /\ \A i \in 1..Len(results) : results[i] = ret[i]
    /\ opc = "returned" => Len(results) = threads

\* the second thread finished first, the results differ, and the Vec has
\* the first thread's result first
C19_Witness ==
    /\ opc = "returned"
    /\ threads = 2
    /\ finished = <<2, 1>>
    /\ results = <<ret[1], ret[2]>>
    /\ ret[1] # ret[2]

\* the rate of the tests: rate(1., 40 * 60 seconds)
TestLambda == rate(DInt(1), DInt(2400))

\* |x - target| < tolerance, as the tests assert it
Near(x, target, tolerance) == DLt(DAbs(DSub(x, target)), tolerance)

\* what C11 says of the calls beside the range of the result: the result
\* is 0 at horizon 0, it does not decrease when the horizon grows, and at
\* the rate of the tests it is near 0.0247, 0.221, 0.632 and 0.8 at the
\* horizons 60, 600, 2400 and 3862.8
ProbShape ==
    /\ \A i \in 1..Len(calls) :
        /\ calls[i].duration = DZero => calls[i].prob = DZero
        /\ rate_lambda = TestLambda =>
            /\ calls[i].duration = DInt(60) =>
                 Near(calls[i].prob, Dec(24700000, -9), Dec(10000000, -11))
            /\ calls[i].duration = DInt(600) =>
                 Near(calls[i].prob, Dec(22100000, -8), Dec(10000000, -10))
            /\ calls[i].duration = DInt(2400) =>
                 Near(calls[i].prob, Dec(63200000, -8), Dec(10000000, -10))
            /\ calls[i].duration = Dec(38628000, -4) =>
                 Near(calls[i].prob, Dec(80000000, -8), Dec(10000000, -10))
    /\ \A i, j \in 1..Len(calls) :
        DLe(calls[i].duration, calls[j].duration) =>
            DLe(calls[i].prob, calls[j].prob)

\* C11 as stated: for a horizon >= 0 and a rate > 0 the result of
\* prob_of_one_event_within_next is at least 0 and less than 1, is 0 at
\* horizon 0, does not decrease with the horizon, and has the four values
\* of the tests.
C11_ProbHalfOpen ==
    /\ \A i \in 1..Len(calls) :
        DLe(DZero, calls[i].prob) /\ DLt(calls[i].prob, DOne)
    /\ ProbShape

\* C11 amended: the same with the result at least 0 and at most 1; it is
\* exactly 1 only where e^(-lambda * horizon) is below the last digit of
\* the numbers under 1, never at the horizons of the tests.
C11_ProbClosed ==
    /\ \A i \in 1..Len(calls) :
        /\ DLe(DZero, calls[i].prob) /\ DLe(calls[i].prob, DOne)
        /\ calls[i].prob = DOne =>
            DLt(DInt(19), DMul(rate_lambda, calls[i].duration))
    /\ ProbShape

\* at the rate of the tests the call with horizon 3862.8 returned about 0.8
\* and the call with the horizon far in the tail returned exactly 1
C11_Witness ==
    /\ rate_lambda = TestLambda
    /\ Len(calls) = 2
    /\ calls[1].duration = Dec(38628000, -4)
    /\ DLt(calls[1].prob, DOne)
    /\ calls[2].duration = DInt(MaxHorizon)
    /\ calls[2].prob = DOne

============================================================================
